---- MODULE Spec2Model ----
(***************************************************************************)
(* iso8601-duration-serde: the codec between time::Duration and the        *)
(* iso8601_duration component record (src/src/lib.rs).                     *)
(*                                                                         *)
(* serialize and deserialize are pure functions over i64, i32, f32 and     *)
(* f64.  The model keeps the widths of the source: an i64 is a signed      *)
(* magnitude of 12-bit limbs (the integers of TLC are 32 bits wide), an    *)
(* f32 or f64 is an exact dyadic number  mag * 2^exp  whose                *)
(* magnitude has at most 24 or 53 significant bits, and every float        *)
(* operation rounds to nearest, ties to even, as IEEE 754 does.            *)
(* Infinities, NaN, subnormals and the sign of zero are outside the        *)
(* model: no operation of the source produces them from finite inputs of   *)
(* the magnitudes drawn here.                                              *)
(***************************************************************************)
EXTENDS Integers, Sequences, FiniteSets, TLC

VARIABLES pc, overflow_checks, parts, duration, wire, decoded

vars == <<pc, overflow_checks, parts, duration, wire, decoded>>

----------------------------------------------------------------------------
(* Unsigned magnitudes: little-endian sequences of limbs, no leading zero  *)
(* limb, <<>> is zero.                                                     *)

LimbBits == 12
Base == 2^LimbBits

Rest(a) == IF a = <<>> THEN <<>> ELSE Tail(a)
Limb(a, i) == IF i <= Len(a) THEN a[i] ELSE 0

RECURSIVE BNorm(_)
BNorm(a) ==
    IF a = <<>> THEN a
    ELSE IF a[Len(a)] = 0 THEN BNorm(SubSeq(a, 1, Len(a) - 1))
    ELSE a

RECURSIVE BFromInt(_)
BFromInt(n) == IF n = 0 THEN <<>> ELSE <<n % Base>> \o BFromInt(n \div Base)

RECURSIVE BToInt(_)
BToInt(a) == IF a = <<>> THEN 0 ELSE a[1] + Base * BToInt(Tail(a))

RECURSIVE BAddC(_, _, _)
BAddC(a, b, c) ==
    IF a = <<>> /\ b = <<>> THEN (IF c = 0 THEN <<>> ELSE <<c>>)
    ELSE LET s == Limb(a, 1) + Limb(b, 1) + c
         IN  <<s % Base>> \o BAddC(Rest(a), Rest(b), s \div Base)

BAdd(a, b) == BAddC(a, b, 0)

RECURSIVE BCmpFrom(_, _, _)
BCmpFrom(a, b, i) ==
    IF i = 0 THEN 0
    ELSE IF a[i] < b[i] THEN -1
    ELSE IF a[i] > b[i] THEN 1
    ELSE BCmpFrom(a, b, i - 1)

\* -1, 0 or 1 as a < b, a = b, a > b
BCmp(a, b) ==
    IF Len(a) < Len(b) THEN -1
    ELSE IF Len(a) > Len(b) THEN 1
    ELSE BCmpFrom(a, b, Len(a))

RECURSIVE BSubB(_, _, _)
BSubB(a, b, w) ==
    IF a = <<>> THEN <<>>
    ELSE LET s == a[1] - Limb(b, 1) - w
         IN  IF s < 0 THEN <<s + Base>> \o BSubB(Tail(a), Rest(b), 1)
             ELSE <<s>> \o BSubB(Tail(a), Rest(b), 0)

\* a - b for a >= b
BSub(a, b) == BNorm(BSubB(a, b, 0))

RECURSIVE BMulC(_, _, _)
BMulC(a, k, c) ==
    IF a = <<>> THEN BFromInt(c)
    ELSE LET s == a[1] * k + c
         IN  <<s % Base>> \o BMulC(Tail(a), k, s \div Base)

\* a * k for a machine-sized 0 <= k < 2^19
BMulSmall(a, k) == IF k = 0 THEN <<>> ELSE BMulC(a, k, 0)

RECURSIVE BMul(_, _)
BMul(a, b) ==
    IF a = <<>> \/ b = <<>> THEN <<>>
    ELSE LET hi == BMul(a, Tail(b))
         IN  BAdd(BMulSmall(a, b[1]), IF hi = <<>> THEN <<>> ELSE <<0>> \o hi)

RECURSIVE BDivStep(_, _, _, _)
BDivStep(a, k, i, r) ==
    IF i = 0 THEN [q |-> <<>>, r |-> r]
    ELSE LET cur  == r * Base + a[i]
             rest == BDivStep(a, k, i - 1, cur % k)
         IN  [q |-> Append(rest.q, cur \div k), r |-> rest.r]

\* quotient and remainder of a by a machine-sized 0 < k < 2^19
BDivSmall(a, k) ==
    LET x == BDivStep(a, k, Len(a), 0) IN [q |-> BNorm(x.q), r |-> x.r]

RECURSIVE BZeros(_)
BZeros(n) == IF n = 0 THEN <<>> ELSE <<0>> \o BZeros(n - 1)

\* a * 2^n
BShl(a, n) ==
    IF a = <<>> THEN <<>>
    ELSE BZeros(n \div LimbBits) \o BMulSmall(a, 2^(n % LimbBits))

\* a \div 2^n
BShr(a, n) ==
    IF n \div LimbBits >= Len(a) THEN <<>>
    ELSE BDivSmall(SubSeq(a, (n \div LimbBits) + 1, Len(a)), 2^(n % LimbBits)).q

\* a % 2^n
BLow(a, n) == BSub(a, BShl(BShr(a, n), n))

RECURSIVE BitLenSmall(_)
BitLenSmall(n) == IF n = 0 THEN 0 ELSE 1 + BitLenSmall(n \div 2)

BBitLen(a) ==
    IF a = <<>> THEN 0 ELSE LimbBits * (Len(a) - 1) + BitLenSmall(a[Len(a)])

BOdd(a) == a # <<>> /\ a[1] % 2 = 1

----------------------------------------------------------------------------
(* Signed integers of any size: [neg, mag], zero is never negative.        *)

SMake(neg, mag) == [neg |-> neg /\ mag # <<>>, mag |-> mag]
SInt(n) == IF n < 0 THEN SMake(TRUE, BFromInt(-n)) ELSE SMake(FALSE, BFromInt(n))
SZero == SInt(0)
SNeg(a) == SMake(~a.neg, a.mag)
SIsNeg(a) == a.neg
SIsPos(a) == ~a.neg /\ a.mag # <<>>

SAdd(a, b) ==
    IF a.neg = b.neg THEN SMake(a.neg, BAdd(a.mag, b.mag))
    ELSE IF BCmp(a.mag, b.mag) >= 0 THEN SMake(a.neg, BSub(a.mag, b.mag))
    ELSE SMake(b.neg, BSub(b.mag, a.mag))

SSub(a, b) == SAdd(a, SNeg(b))

\* a * k for a machine-sized k >= 0
SMulSmall(a, k) == SMake(a.neg, BMulSmall(a.mag, k))

\* a < b
SLess(a, b) == SIsNeg(SSub(a, b))

\* the value of a signed integer that fits the integers of TLC
SToInt(a) == IF a.neg THEN -BToInt(a.mag) ELSE BToInt(a.mag)

----------------------------------------------------------------------------
(* i64: two's complement, 64 bits.                                         *)

Two63 == BShl(<<1>>, 63)
Two64 == BShl(<<1>>, 64)
I64Max == SMake(FALSE, BSub(Two63, <<1>>))
I64Min == SMake(TRUE, Two63)

InI64(a) == IF a.neg THEN BCmp(a.mag, Two63) <= 0 ELSE BCmp(a.mag, Two63) < 0

\* the exact value a reduced modulo 2^64 into [-2^63, 2^63)
Wrap64(a) ==
    LET low == BLow(a.mag, 64)
        u   == IF a.neg /\ low # <<>> THEN BSub(Two64, low) ELSE low
    IN  IF BCmp(u, Two63) >= 0 THEN SMake(TRUE, BSub(Two64, u))
        ELSE SMake(FALSE, u)

\* i64 `/` and `%` by a positive constant: the quotient truncates toward
\* zero and the remainder takes the sign of the dividend
\* a plausible slip: the quotient floored (div_euclid) instead of truncated
I64Div_floored(a, k) ==
    LET d == BDivSmall(a.mag, k)
    IN  IF a.neg /\ d.r # 0 THEN SMake(TRUE, BAdd(d.q, <<1>>)) ELSE SMake(a.neg, d.q)
I64Div(a, k) == SMake(a.neg, BDivSmall(a.mag, k).q)
\* a plausible slip: the remainder never negative (rem_euclid)
I64Rem_euclid(a, k) ==
    LET r == BDivSmall(a.mag, k).r
    IN  IF a.neg /\ r # 0 THEN SMake(FALSE, BFromInt(k - r)) ELSE SMake(FALSE, BFromInt(r))
I64Rem(a, k) == SMake(a.neg, BFromInt(BDivSmall(a.mag, k).r))

\* i64 `*` and `+`: the wrapped result, and whether the exact one overflowed
\* (a panic where overflow checks are compiled in, a wrap where not)
I64Mul(a, k) ==
    LET x == SMulSmall(a, k) IN [val |-> Wrap64(x), ovf |-> ~InI64(x)]
I64Add(a, b) ==
    LET x == SAdd(a, b) IN [val |-> Wrap64(x), ovf |-> ~InI64(x)]

----------------------------------------------------------------------------
(* Floats: [neg, mag, exp] is (-1)^neg * mag * 2^exp, kept canonical (mag   *)
(* odd, or zero with exp = 0) so that equal numbers are equal values.      *)

F32Bits == 24
F64Bits == 53

RECURSIVE Canon(_, _, _)
Canon(neg, mag, exp) ==
    IF mag = <<>> THEN [neg |-> FALSE, mag |-> <<>>, exp |-> 0]
    ELSE IF mag[1] = 0 THEN Canon(neg, Tail(mag), exp + LimbBits)
    ELSE IF mag[1] % 2 = 0 THEN Canon(neg, BDivSmall(mag, 2).q, exp + 1)
    ELSE [neg |-> neg, mag |-> mag, exp |-> exp]

\* the float of p significant bits nearest to (-1)^neg * (mag + s) * 2^exp,
\* where 0 <= s < 1 and s > 0 iff sticky; ties go to the even neighbour
Round(neg, mag, exp, sticky, p) ==
    IF BBitLen(mag) <= p THEN Canon(neg, mag, exp)
    ELSE LET sh   == BBitLen(mag) - p
             q    == BShr(mag, sh)
             c    == BCmp(BLow(mag, sh), BShl(<<1>>, sh - 1))
             up   == c > 0 \/ (c = 0 /\ (sticky \/ BOdd(q)))
         IN  Canon(neg, IF up THEN BAdd(q, <<1>>) ELSE q, exp + sh)

FZero == Canon(FALSE, <<>>, 0)

\* the float n * 2^e for a machine-sized integer n
Flt(n, e) == Canon(n < 0, BFromInt(IF n < 0 THEN -n ELSE n), e)

FIsZero(x) == x.mag = <<>>
FIsNeg(x) == x.neg
\* x > 0.0
FGtZero(x) == ~x.neg /\ x.mag # <<>>
\* x is a whole number
FIsInt(x) == x.exp >= 0

\* `as f32` of an i64: the nearest f32
I64ToF32(a) == Round(a.neg, a.mag, 0, FALSE, F32Bits)

\* `as f64` of an i32: exact
I32ToF64(n) == Flt(n, 0)

\* `as f32` of an f64: the nearest f32
F64ToF32(x) == Round(x.neg, x.mag, x.exp, FALSE, F32Bits)

\* f64 `/` by 1e9 = 2^9 * 5^9: the quotient to 76 fractional bits and
\* whether anything is left, rounded to the nearest f64
F64DivNanosPerSecond(x) ==
    LET d1 == BDivSmall(BShl(x.mag, 76), 5^3)
        d2 == BDivSmall(d1.q, 5^6)
    IN  Round(x.neg, d2.q, x.exp - 76 - 9, d1.r # 0 \/ d2.r # 0, F64Bits)

\* the exact sum of two floats, as a signed integer times 2^exp
ExactSum(x, y) ==
    LET e == IF x.exp < y.exp THEN x.exp ELSE y.exp
    IN  [int |-> SAdd(SMake(x.neg, BShl(x.mag, x.exp - e)),
                      SMake(y.neg, BShl(y.mag, y.exp - e))),
         exp |-> e]

\* f32 `+`
F32Add(x, y) ==
    LET s == ExactSum(x, y) IN Round(s.int.neg, s.int.mag, s.exp, FALSE, F32Bits)

\* f32 `*`
F32Mul(x, y) ==
    Round(x.neg # y.neg, BMul(x.mag, y.mag), x.exp + y.exp, FALSE, F32Bits)

\* f32::fract: x - x.trunc(), exact, with the sign of x
F32Fract(x) ==
    IF x.exp >= 0 THEN FZero ELSE Canon(x.neg, BLow(x.mag, -x.exp), x.exp)

\* the integer part of x, toward zero
FTrunc(x) ==
    IF x.exp >= 0 THEN SMake(x.neg, BShl(x.mag, x.exp))
    ELSE SMake(x.neg, BShr(x.mag, -x.exp))

\* `as i64` of an f32: toward zero, saturating at the ends of the range
F32ToI64(x) ==
    LET t == FTrunc(x)
    IN  IF InI64(t) THEN t ELSE IF t.neg THEN I64Min ELSE I64Max

I32Max == 2^30 + (2^30 - 1)
I32Min == -I32Max - 1

\* `as i32` of an f32: toward zero, saturating at the ends of the range
F32ToI32(x) ==
    LET t == FTrunc(x)
    IN  IF BBitLen(t.mag) <= 31 /\ BCmp(t.mag, BFromInt(I32Max)) <= 0
        THEN SToInt(t)
        ELSE IF t.neg THEN I32Min ELSE I32Max

----------------------------------------------------------------------------
(* time::Duration and time_core::convert                                   *)

SecondsPerDay == 86400
SecondsPerHour == 3600
SecondsPerMinute == 60
NanosPerSecond == 10^9

\* Second::per_t::<f32>(..), Nanosecond::per_t::<f32>(Second): all exact in f32
F32SecondsPerDay == Flt(SecondsPerDay, 0)
F32SecondsPerHour == Flt(SecondsPerHour, 0)
F32SecondsPerMinute == Flt(SecondsPerMinute, 0)
F32NanosPerSecond == Flt(5^9, 9)

\* i32 `/` and `%`: toward zero, the remainder with the sign of the dividend
I32Div(n, k) == IF n < 0 /\ n % k # 0 THEN (n \div k) + 1 ELSE n \div k
I32Rem(n, k) == IF n < 0 /\ n % k # 0 THEN (n % k) - k ELSE n % k

Dur(s, n) == [secs |-> s, nanos |-> n]
ZeroDuration == Dur(SZero, 0)

\* Duration::new: carries whole seconds out of the nanoseconds (panicking
\* if that overflows) and makes the two signs agree
DurationNew(seconds, nanoseconds) ==
    LET carried == I64Add(seconds, SInt(I32Div(nanoseconds, NanosPerSecond)))
        s       == carried.val
        ns      == I32Rem(nanoseconds, NanosPerSecond)
    IN  IF carried.ovf THEN [panic |-> TRUE, dur |-> ZeroDuration]
        ELSE IF SIsPos(s) /\ ns < 0
        THEN [panic |-> FALSE, dur |-> Dur(SSub(s, SInt(1)), ns + NanosPerSecond)]
        ELSE IF SIsNeg(s) /\ ns > 0
        THEN [panic |-> FALSE, dur |-> Dur(SAdd(s, SInt(1)), ns - NanosPerSecond)]
        ELSE [panic |-> FALSE, dur |-> Dur(s, ns)]

whole_seconds(d) == d.secs
subsec_nanoseconds(d) == d.nanos

\* a plausible slip: hour and minute swapped among the six positional f32s
IsoDurationNew_swapped(year, month, day, hour, minute, second) ==
    [year |-> year, month |-> month, day |-> day,
     hour |-> minute, minute |-> hour, second |-> second]

\* iso8601_duration::Duration::new
IsoDurationNew(year, month, day, hour, minute, second) ==
    [year |-> year, month |-> month, day |-> day,
     hour |-> hour, minute |-> minute, second |-> second]

----------------------------------------------------------------------------
(* The codec                                                               *)

\* a plausible slip: the sub-second part taken off instead of added
seconds_f32_of_subtracted(seconds, nanoseconds) ==
    F32Add(I64ToF32(seconds),
           F64ToF32(F64DivNanosPerSecond(I32ToF64(-nanoseconds))))

\* the seconds field: the remainder below a minute plus the sub-second part
seconds_f32_of(seconds, nanoseconds) ==
    F32Add(I64ToF32(seconds),
           F64ToF32(F64DivNanosPerSecond(I32ToF64(nanoseconds))))

\* serialize, up to the record handed to the text printer
serialize(d) ==
    LET seconds0    == whole_seconds(d)
        nanoseconds == subsec_nanoseconds(d)
        days        == I64Div(seconds0, SecondsPerDay)
        seconds1    == I64Rem(seconds0, SecondsPerDay)
        hours       == I64Div(seconds1, SecondsPerHour)
        seconds2    == I64Rem(seconds1, SecondsPerHour)
        minutes     == I64Div(seconds2, SecondsPerMinute)
        seconds3    == I64Rem(seconds2, SecondsPerMinute)
    IN  IsoDurationNew(FZero, FZero, I64ToF32(days), I64ToF32(hours),
                       I64ToF32(minutes), seconds_f32_of(seconds3, nanoseconds))

Outcome(kind, d) == [kind |-> kind, dur |-> d]

\* a plausible slip: >= for >, which rejects the zero fields too
rejects_zero_too(iso) == ~FIsNeg(iso.year) \/ ~FIsNeg(iso.month)

\* the validation of deserialize: what makes it return the custom error
rejects(iso) == FGtZero(iso.year) \/ FGtZero(iso.month)

\* seconds_fract: the fractional parts of the four fields, in seconds
seconds_fract_of(iso) ==
    F32Add(F32Add(F32Add(F32Mul(F32Fract(iso.day), F32SecondsPerDay),
                         F32Mul(F32Fract(iso.hour), F32SecondsPerHour)),
                  F32Mul(F32Fract(iso.minute), F32SecondsPerMinute)),
           F32Fract(iso.second))

\* a plausible slip: hours counted as minutes
seconds_of_hour_as_minute(iso, seconds_fract) ==
    LET pd == I64Mul(F32ToI64(iso.day), SecondsPerDay)
        ph == I64Mul(F32ToI64(iso.hour), SecondsPerMinute)
        pm == I64Mul(F32ToI64(iso.minute), SecondsPerMinute)
        s1 == I64Add(pd.val, ph.val)
        s2 == I64Add(s1.val, pm.val)
        s3 == I64Add(s2.val, F32ToI64(iso.second))
        s4 == I64Add(s3.val, F32ToI64(seconds_fract))
    IN  [val |-> s4.val,
         ovf |-> pd.ovf \/ ph.ovf \/ pm.ovf
                 \/ s1.ovf \/ s2.ovf \/ s3.ovf \/ s4.ovf]

\* seconds: the whole parts of the four fields and of seconds_fract, with
\* whether any product or sum overflowed
seconds_of(iso, seconds_fract) ==
    LET pd == I64Mul(F32ToI64(iso.day), SecondsPerDay)
        ph == I64Mul(F32ToI64(iso.hour), SecondsPerHour)
        pm == I64Mul(F32ToI64(iso.minute), SecondsPerMinute)
        s1 == I64Add(pd.val, ph.val)
        s2 == I64Add(s1.val, pm.val)
        s3 == I64Add(s2.val, F32ToI64(iso.second))
        s4 == I64Add(s3.val, F32ToI64(seconds_fract))
    IN  [val |-> s4.val,
         ovf |-> pd.ovf \/ ph.ovf \/ pm.ovf
                 \/ s1.ovf \/ s2.ovf \/ s3.ovf \/ s4.ovf]

\* a plausible slip: the whole seconds_fract, not its fractional part
nanoseconds_of_whole(seconds_fract) ==
    F32ToI32(F32Mul(seconds_fract, F32NanosPerSecond))

\* nanoseconds: the fractional part of seconds_fract
nanoseconds_of(seconds_fract) ==
    F32ToI32(F32Mul(F32Fract(seconds_fract), F32NanosPerSecond))

\* a plausible slip: the Duration built from the two numbers as they are,
\* without Duration::new making their signs agree
convert_unnormalised(iso, checks) ==
    LET seconds_fract == seconds_fract_of(iso)
        seconds       == seconds_of(iso, seconds_fract)
    IN  IF seconds.ovf /\ checks
        THEN Outcome("panic", ZeroDuration)
        ELSE Outcome("ok", Dur(seconds.val, nanoseconds_of(seconds_fract)))

\* the conversion of deserialize, from a record that passed the validation;
\* checks: whether the build panics on integer overflow
convert(iso, checks) ==
    LET seconds_fract == seconds_fract_of(iso)
        seconds       == seconds_of(iso, seconds_fract)
        made          == DurationNew(seconds.val, nanoseconds_of(seconds_fract))
    IN  IF (seconds.ovf /\ checks) \/ made.panic
        THEN Outcome("panic", ZeroDuration)
        ELSE Outcome("ok", made.dur)

\* deserialize, from the result of the text parser: w.ok says whether it
\* parsed, w.iso is the record it parsed
deserialize(w, checks) ==
    IF ~w.ok THEN Outcome("parse_error", ZeroDuration)
    ELSE IF rejects(w.iso) THEN Outcome("invalid", ZeroDuration)
    ELSE convert(w.iso, checks)

----------------------------------------------------------------------------
(* Inputs                                                                  *)

\* whole days 0..MaxDays, and whole field values -MaxUnits..MaxUnits
MaxDays == 2
MaxUnits == 1

\* 2^24: every whole number up to it is an f32, 2^24 + 1 is the first not
TwoPow24 == 2^F32Bits

\* Duration::days(D) + Duration::hours(H) + Duration::minutes(M)
\* + Duration::seconds(S) + Duration::nanoseconds(N), or its negation
Days == (0..MaxDays)
        \cup {TwoPow24 - 1, TwoPow24, TwoPow24 + 1, TwoPow24 + 2, 2 * TwoPow24 + 2}
Hours == {0, 3, 23}
Minutes == {0, 30, 59}
Seconds == {0, 10, 59}
Nanos == {0, 1, 100000000, 500000000, 999999970, 999999999}

Parts == [neg : BOOLEAN, days : Days, hours : Hours, minutes : Minutes,
          seconds : Seconds, nanos : Nanos]
NoParts == [neg |-> FALSE, days |-> 0, hours |-> 0, minutes |-> 0,
            seconds |-> 0, nanos |-> 0]

DurationOf(p) ==
    LET s == SAdd(SMulSmall(SInt(p.days), SecondsPerDay),
                  SInt(p.hours * SecondsPerHour + p.minutes * SecondsPerMinute
                       + p.seconds))
    IN  IF p.neg THEN Dur(SNeg(s), -p.nanos) ELSE Dur(s, p.nanos)

\* what the text parser can hand over: f32 fields of any sign, whole or not
Whole == {Flt(n, 0) : n \in (-MaxUnits)..MaxUnits}
Half == Flt(1, -1)
TenAndHalf == Flt(21, -1)
\* 0.1f32 and 10.1f32, the f32 nearest to 0.1 and to 10.1
Tenth == Flt(13421773, -27)
TenAndTenth == Flt(10590618, -20)
\* the largest f32 below 1
BelowOne == Flt(TwoPow24 - 1, -F32Bits)

CalendarValues == {Flt(0, 0), Flt(1, 0), Flt(-1, 0), Half, Flt(-1, -1)}
DayValues == Whole \cup {Flt(7, 0), Half, Tenth, Flt(3, -1), Flt(1, 47)}
HourValues == Whole \cup {Flt(12, 0), Half, Flt(-1, -1)}
MinuteValues == Whole \cup {Flt(30, 0), Flt(3, -1)}
SecondValues == Whole \cup {Flt(45, 0), TenAndHalf, TenAndTenth, Flt(1, -40),
                            BelowOne, Flt(-1, -1), Flt(1, 70)}

ParsedRecords ==
    {IsoDurationNew(FZero, FZero, d, h, m, s) :
        d \in DayValues, h \in HourValues, m \in MinuteValues, s \in SecondValues}
    \cup
    {IsoDurationNew(y, mo, d, FZero, FZero, s) :
        y \in CalendarValues, mo \in CalendarValues,
        d \in {FZero, Flt(1, 0)}, s \in {FZero, TenAndHalf, Flt(-1, -1)}}

ZeroIso == IsoDurationNew(FZero, FZero, FZero, FZero, FZero, FZero)
Parsed(iso) == [ok |-> TRUE, iso |-> iso]
ParseFailure == [ok |-> FALSE, iso |-> ZeroIso]
ParserResults == {ParseFailure} \cup {Parsed(r) : r \in ParsedRecords}

----------------------------------------------------------------------------
(* The state machine: a Duration is serialized and the record read back    *)
(* (the text printer and parser in between are the iso8601_duration        *)
(* crate's and pass the record on), or a text is parsed and deserialized.  *)

Init ==
    /\ overflow_checks \in BOOLEAN
    /\ decoded = Outcome("none", ZeroDuration)
    /\ \/ /\ pc = "serialize"
          /\ parts \in Parts
          /\ duration = DurationOf(parts)
          /\ wire = ParseFailure
       \/ /\ pc = "parsed"
          /\ parts = NoParts
          /\ duration = ZeroDuration
          /\ wire \in ParserResults

Serialize ==
    /\ pc = "serialize"
    /\ wire' = Parsed(serialize(duration))
    /\ pc' = "serialized"
    /\ UNCHANGED <<overflow_checks, parts, duration, decoded>>

Deserialize ==
    /\ pc \in {"serialized", "parsed"}
    /\ decoded' = deserialize(wire, overflow_checks)
    /\ pc' = IF pc = "serialized" THEN "round_trip" ELSE "decoded"
    /\ UNCHANGED <<overflow_checks, parts, duration, wire>>

Next == Serialize \/ Deserialize

Spec == Init /\ [][Next]_vars

----------------------------------------------------------------------------
(* The vocabulary of the properties, in exact arithmetic                   *)

Encoded == pc \in {"serialized", "round_trip"}
RoundTripped == pc = "round_trip"
Decoded == pc = "decoded"

BNanosPerSecond == BFromInt(NanosPerSecond)

\* a Duration in nanoseconds
TotalNanos(d) ==
    SAdd(SMake(d.secs.neg, BMul(d.secs.mag, BNanosPerSecond)), SInt(d.nanos))

\* |a - b| < 1 second
WithinASecond(a, b) ==
    BCmp(SSub(TotalNanos(a), TotalNanos(b)).mag, BNanosPerSecond) < 0

IsNegativeDuration(d) == SIsNeg(d.secs) \/ d.nanos < 0

\* seconds and nanoseconds agree in sign, the nanoseconds below a second
WellFormed(d) ==
    /\ -NanosPerSecond < d.nanos /\ d.nanos < NanosPerSecond
    /\ ~(SIsPos(d.secs) /\ d.nanos < 0)
    /\ ~(SIsNeg(d.secs) /\ d.nanos > 0)

\* the record (0, 0, D, H, M, S) of the parts of a Duration, each field the
\* number itself whether or not an f32 can hold it
FieldsOf(p) ==
    LET sg(n) == IF p.neg THEN -n ELSE n
    IN  IsoDurationNew(FZero, FZero, Flt(sg(p.days), 0), Flt(sg(p.hours), 0),
                       Flt(sg(p.minutes), 0), Flt(sg(p.seconds), 0))

Fields(iso) == {iso.day, iso.hour, iso.minute, iso.second}
CalendarZero(iso) == FIsZero(iso.year) /\ FIsZero(iso.month)

\* the least exponent of the four fields, at most 0
MinExp(iso) ==
    CHOOSE e \in {0} \cup {x.exp : x \in Fields(iso)} :
        \A x \in Fields(iso) : e <= x.exp /\ e <= 0

\* x * k / 2^e, a whole number for e <= x.exp
Scaled(x, k, e) == SMake(x.neg, BMulSmall(BShl(x.mag, x.exp - e), k))

\* (day * 86400 + hour * 3600 + minute * 60 + second) / 2^e, exactly
ExactSeconds(iso, e) ==
    SAdd(SAdd(SAdd(Scaled(iso.day, SecondsPerDay, e),
                   Scaled(iso.hour, SecondsPerHour, e)),
              Scaled(iso.minute, SecondsPerMinute, e)),
         Scaled(iso.second, 1, e))

\* day * 86400 + hour * 3600 + minute * 60 + second in nanoseconds, cut to
\* a whole number of them, for a record of non-negative fields
ExactNanos(iso) ==
    BShr(BMul(ExactSeconds(iso, MinExp(iso)).mag, BNanosPerSecond), -MinExp(iso))

\* the distance between a Duration and the exact value of a record is
\* below 1/32 second
WithinA32nd(d, iso) ==
    LET e == MinExp(iso)
        n == TotalNanos(d)
        t == ExactSeconds(iso, e)
        diff == SSub(SMake(n.neg, BShl(n.mag, -e)),
                     SMake(t.neg, BMul(t.mag, BNanosPerSecond)))
    IN  BCmp(BMulSmall(diff.mag, 32), BShl(BNanosPerSecond, -e)) < 0

\* none of the casts, products and running sums of the whole parts of the
\* fields leaves the range of i64
WholeFits(iso) ==
    LET d  == FTrunc(iso.day)
        h  == FTrunc(iso.hour)
        m  == FTrunc(iso.minute)
        sc == FTrunc(iso.second)
        pd == SMulSmall(d, SecondsPerDay)
        ph == SMulSmall(h, SecondsPerHour)
        pm == SMulSmall(m, SecondsPerMinute)
    IN  \A v \in {d, h, m, sc, pd, ph, pm, SAdd(pd, ph), SAdd(SAdd(pd, ph), pm),
                  SAdd(SAdd(SAdd(pd, ph), pm), sc)} : InI64(v)

\* |x| < 2^46
Below2Pow46(x) == BBitLen(x.mag) + x.exp <= 46

----------------------------------------------------------------------------
(* C1: decode rejects every parsed record whose years or months field is   *)
(* non-zero, positive or negative, with the validation error, whatever the *)
(* other fields.  The code tests `> 0.0`, so a negative field passes.      *)
C1_NonZeroCalendarRejected ==
    (Decoded /\ wire.ok /\ ~CalendarZero(wire.iso)) => decoded.kind = "invalid"

----------------------------------------------------------------------------
(* C2: for every non-negative Duration d of whole seconds, decoding the    *)
(* record that encoding d produced returns exactly d.                      *)
(* As claimed, for every magnitude: refuted by 2^24 + 1 days, which the    *)
(* f32 day field cannot hold.                                              *)
C2_RoundTripAnyMagnitude ==
    (RoundTripped /\ ~parts.neg /\ parts.nanos = 0)
        => decoded = Outcome("ok", duration)

(* C2, amended: the same for every such d of at most 2^24 whole days.      *)
C2_RoundTripUpTo2Pow24Days ==
    (RoundTripped /\ ~parts.neg /\ parts.nanos = 0 /\ parts.days <= TwoPow24)
        => decoded = Outcome("ok", duration)

C2_Witness ==
    /\ RoundTripped /\ ~parts.neg /\ parts.nanos = 0
    /\ parts.days = TwoPow24 /\ parts.hours = 23
    /\ parts.minutes = 59 /\ parts.seconds = 59
    /\ decoded = Outcome("ok", duration)

----------------------------------------------------------------------------
(* C3: for every Duration of s whole seconds and no sub-second part,       *)
(* encode produces years = 0, months = 0 and the successive truncating     *)
(* quotients and remainders of s by 86400, 3600 and 60, so that the fields *)
(* sum back to s; D days + H hours + M minutes + S seconds encodes to      *)
(* exactly (0, 0, D, H, M, S).                                             *)
(* As claimed, for every s: refuted by 2^24 + 1 days, whose day field is   *)
(* rounded to 2^24.                                                        *)
C3_FieldsAnyMagnitude ==
    (Encoded /\ parts.nanos = 0)
        => /\ wire.iso = FieldsOf(parts)
           /\ ExactSeconds(wire.iso, MinExp(wire.iso)) = whole_seconds(duration)

(* C3, amended: the same for every s of at most 2^24 whole days.           *)
C3_FieldsUpTo2Pow24Days ==
    (Encoded /\ parts.nanos = 0 /\ parts.days <= TwoPow24)
        => /\ wire.iso = FieldsOf(parts)
           /\ MinExp(wire.iso) = 0
           /\ ExactSeconds(wire.iso, 0) = whole_seconds(duration)

C3_Witness ==
    /\ pc = "serialized"
    /\ parts = [neg |-> FALSE, days |-> 2, hours |-> 3, minutes |-> 30,
                seconds |-> 10, nanos |-> 0]
    /\ wire.iso = IsoDurationNew(FZero, FZero, Flt(2, 0), Flt(3, 0),
                                 Flt(30, 0), Flt(10, 0))

----------------------------------------------------------------------------
(* C4: for every Duration d with a sub-second part, decode(encode(d)) has  *)
(* the whole seconds of d and differs from d by less than 1 second.        *)
(* As claimed: refuted by 0.999999999 s, whose seconds field rounds to     *)
(* 1.0f32, and by 2^24 + 1 days and a half second.                         *)
C4_SameWholeSeconds ==
    (RoundTripped /\ parts.nanos # 0)
        => /\ decoded.kind = "ok"
           /\ whole_seconds(decoded.dur) = whole_seconds(duration)
           /\ WithinASecond(decoded.dur, duration)

(* C4, amended: for every such d of at most 2^24 whole days,               *)
(* decode(encode(d)) differs from d by less than 1 second, and has the     *)
(* whole seconds of d unless the seconds field rounded up to a whole       *)
(* number, when it is exactly the next whole second away from zero.        *)
C4_WithinASecond ==
    (RoundTripped /\ parts.nanos # 0 /\ parts.days <= TwoPow24)
        => /\ decoded.kind = "ok"
           /\ WithinASecond(decoded.dur, duration)
           /\ \/ whole_seconds(decoded.dur) = whole_seconds(duration)
              \/ /\ subsec_nanoseconds(decoded.dur) = 0
                 /\ whole_seconds(decoded.dur)
                        = SAdd(whole_seconds(duration),
                               SInt(IF parts.neg THEN -1 ELSE 1))

C4_Witness ==
    /\ RoundTripped
    /\ parts = [neg |-> FALSE, days |-> 0, hours |-> 0, minutes |-> 0,
                seconds |-> 10, nanos |-> 999999999]
    /\ wire.iso.second = Flt(11, 0)
    /\ decoded = Outcome("ok", Dur(SInt(11), 0))

----------------------------------------------------------------------------
(* C5: for every record with years = 0, months = 0 and whole days, hours,  *)
(* minutes and seconds, decode returns exactly days * 86400 + hours * 3600 *)
(* + minutes * 60 + seconds whole seconds and no nanoseconds.              *)
(* As claimed, for every such record: refuted by a field of 2^47 or 2^70,  *)
(* where the i64 total overflows or the cast saturates.                    *)
C5_WholeFieldsAnyMagnitude ==
    (Decoded /\ wire.ok /\ CalendarZero(wire.iso)
        /\ \A x \in Fields(wire.iso) : FIsInt(x))
        => decoded = Outcome("ok", Dur(ExactSeconds(wire.iso, 0), 0))

(* C5, amended: the same for every such record where none of the casts,    *)
(* products and running sums of the total leaves the range of i64.         *)
C5_WholeFieldsThatFit ==
    (Decoded /\ wire.ok /\ CalendarZero(wire.iso)
        /\ (\A x \in Fields(wire.iso) : FIsInt(x)) /\ WholeFits(wire.iso))
        => decoded = Outcome("ok", Dur(ExactSeconds(wire.iso, 0), 0))

C5_Witness ==
    /\ Decoded
    /\ wire = Parsed(IsoDurationNew(FZero, FZero, Flt(1, 0), Flt(12, 0),
                                    Flt(30, 0), Flt(45, 0)))
    /\ decoded = Outcome("ok", Dur(SInt(131445), 0))

----------------------------------------------------------------------------
(* C6: decode fails if and only if the text parser failed (that error is   *)
(* passed on) or the record has non-zero years or months; every other      *)
(* record decodes to a Duration, whatever its fields, overflow included.   *)
(* Refuted by years = -1, which decodes (C1), and, where overflow checks   *)
(* are compiled in, by a field of 2^47, which panics.                      *)
C6_TwoFailureSources ==
    Decoded =>
        /\ ~wire.ok => decoded.kind = "parse_error"
        /\ (wire.ok /\ ~CalendarZero(wire.iso)) => decoded.kind = "invalid"
        /\ (wire.ok /\ CalendarZero(wire.iso)) => decoded.kind = "ok"

----------------------------------------------------------------------------
(* C7: every Duration that decode returns is well-formed: whole seconds    *)
(* and nanoseconds agree in sign and the nanoseconds lie strictly between  *)
(* -1e9 and 1e9, also for fields of mixed signs or with fractions.         *)
C7_DecodedWellFormed ==
    (pc \in {"round_trip", "decoded"} /\ decoded.kind = "ok")
        => WellFormed(decoded.dur)

\* -1 minute and 10.5 seconds: -50 s and +0.5e9 ns before Duration::new
C7_Witness ==
    /\ Decoded
    /\ wire = Parsed(IsoDurationNew(FZero, FZero, FZero, FZero, Flt(-1, 0),
                                    TenAndHalf))
    /\ decoded = Outcome("ok", Dur(SInt(-49), -500000000))

----------------------------------------------------------------------------
(* C8: for a negative Duration every field that encode produces is         *)
(* negative or zero, for a non-negative one every field is non-negative,   *)
(* and the sub-second part is added to the seconds with the same sign.     *)
C8_FieldsShareTheSign ==
    Encoded =>
        /\ IsNegativeDuration(duration)
              => \A x \in Fields(wire.iso) : FIsNeg(x) \/ FIsZero(x)
        /\ ~IsNegativeDuration(duration)
              => \A x \in Fields(wire.iso) : ~FIsNeg(x)
        /\ BCmp(FTrunc(wire.iso.second).mag, BFromInt(parts.seconds)) >= 0

C8_Witness ==
    /\ pc = "serialized"
    /\ parts = [neg |-> TRUE, days |-> 1, hours |-> 3, minutes |-> 30,
                seconds |-> 10, nanos |-> 500000000]
    /\ wire.iso = IsoDurationNew(FZero, FZero, Flt(-1, 0), Flt(-3, 0),
                                 Flt(-30, 0), Flt(-21, -1))

----------------------------------------------------------------------------
(* C9: for every accepted record of non-negative fields the fractions of   *)
(* days, hours and minutes are carried into the seconds: the Duration is   *)
(* days * 86400 + hours * 3600 + minutes * 60 + seconds cut to whole       *)
(* nanoseconds, and a seconds field n + f, 0 < f < 1, alone decodes to a   *)
(* Duration strictly between n and n + 1 seconds.                          *)
(* As claimed: refuted by 10.1f32 seconds (the f32 product f * 1e9 is      *)
(* rounded), by 2^-40 seconds (which decodes to 0) and by 2^47 days.       *)
C9_CarriedExactly ==
    (Decoded /\ wire.ok /\ CalendarZero(wire.iso)
        /\ \A x \in Fields(wire.iso) : ~FIsNeg(x))
        => /\ decoded.kind = "ok"
           /\ TotalNanos(decoded.dur) = SMake(FALSE, ExactNanos(wire.iso))
           /\ (FIsZero(wire.iso.day) /\ FIsZero(wire.iso.hour)
                 /\ FIsZero(wire.iso.minute) /\ ~FIsInt(wire.iso.second))
                => /\ whole_seconds(decoded.dur) = FTrunc(wire.iso.second)
                   /\ subsec_nanoseconds(decoded.dur) > 0

(* C9, amended: for every accepted record of non-negative fields below     *)
(* 2^46 the Duration is not negative and within 1/32 second of days *      *)
(* 86400 + hours * 3600 + minutes * 60 + seconds (the f32 products and     *)
(* sums are rounded), and a seconds field n + f alone decodes to n whole   *)
(* seconds and a nanosecond part that is not zero when f >= 1e-9.          *)
C9_CarriedWithinRounding ==
    (Decoded /\ wire.ok /\ CalendarZero(wire.iso)
        /\ \A x \in Fields(wire.iso) : ~FIsNeg(x) /\ Below2Pow46(x))
        => /\ decoded.kind = "ok"
           /\ ~IsNegativeDuration(decoded.dur)
           /\ WithinA32nd(decoded.dur, wire.iso)
           /\ (FIsZero(wire.iso.day) /\ FIsZero(wire.iso.hour)
                 /\ FIsZero(wire.iso.minute) /\ ~FIsInt(wire.iso.second))
                => /\ whole_seconds(decoded.dur) = FTrunc(wire.iso.second)
                   /\ subsec_nanoseconds(decoded.dur) >= 0
                   /\ subsec_nanoseconds(decoded.dur) < NanosPerSecond
                   /\ BCmp(ExactNanos(wire.iso),
                           BMul(FTrunc(wire.iso.second).mag, BNanosPerSecond)) > 0
                        => subsec_nanoseconds(decoded.dur) > 0

\* half a day and 10.5 seconds: 43200 whole seconds carried out of the fractions
C9_Witness ==
    /\ Decoded
    /\ wire = Parsed(IsoDurationNew(FZero, FZero, Half, FZero, FZero, TenAndHalf))
    /\ decoded = Outcome("ok", Dur(SInt(43210), 500000000))

----------------------------------------------------------------------------
(* C10: for every negative Duration d of whole seconds, the record that    *)
(* encode(d) produces is accepted (years and months are zero) and decodes  *)
(* to exactly d.                                                           *)
(* As claimed, for every magnitude: refuted by -(2^24 + 1) days.           *)
C10_NegativeRoundTripAnyMagnitude ==
    (RoundTripped /\ IsNegativeDuration(duration) /\ parts.nanos = 0)
        => /\ CalendarZero(wire.iso)
           /\ decoded = Outcome("ok", duration)

(* C10, amended: the same for every such d of at most 2^24 whole days.     *)
C10_NegativeRoundTripUpTo2Pow24Days ==
    (RoundTripped /\ IsNegativeDuration(duration) /\ parts.nanos = 0
        /\ parts.days <= TwoPow24)
        => /\ CalendarZero(wire.iso)
           /\ decoded = Outcome("ok", duration)

C10_Witness ==
    /\ RoundTripped
    /\ parts = [neg |-> TRUE, days |-> 2, hours |-> 3, minutes |-> 30,
                seconds |-> 10, nanos |-> 0]
    /\ decoded = Outcome("ok", Dur(SInt(-185410), 0))

====
